---- MODULE Spec2Model ----
(***************************************************************************)
(* A model of the civic-complaints chatbot: the SQL safety validator of    *)
(* query_executor.py, the chart inference of analytics_output.py and the   *)
(* /chat pipeline of chatbot.py with the startup of main.py and app.py.    *)
(*                                                                         *)
(* Text is modelled as a sequence of one-character strings, so that the    *)
(* regular expressions and string methods of the source are computed       *)
(* character by character.                                                 *)
(***************************************************************************)
EXTENDS Integers, Sequences, FiniteSets, TLC

(***************************************************************************)
(* Characters and the string methods the source uses.                      *)
(***************************************************************************)
LowerLetters == <<"a","b","c","d","e","f","g","h","i","j","k","l","m","n","o","p","q","r","s","t","u","v","w","x","y","z">>
UpperLetters == <<"A","B","C","D","E","F","G","H","I","J","K","L","M","N","O","P","Q","R","S","T","U","V","W","X","Y","Z">>
DigitChars == {"0","1","2","3","4","5","6","7","8","9"}

\* the single quote; and the backtick, which the parser reads as the start
\* of a quotation even inside a string, so the character is written by name
Quote    == "'"
Backtick == "backtick"

Range(f) == {f[i] : i \in DOMAIN f}

\* str.upper() on one character (ASCII letters; every other character is kept)
UpperOf == [c \in Range(LowerLetters) |->
               UpperLetters[CHOOSE i \in 1..26 : LowerLetters[i] = c]]

UpperChar(c) == IF c \in DOMAIN UpperOf THEN UpperOf[c] ELSE c

\* str.lower() on one character
LowerOf == [c \in Range(UpperLetters) |->
               LowerLetters[CHOOSE i \in 1..26 : UpperLetters[i] = c]]

LowerChar(c) == IF c \in DOMAIN LowerOf THEN LowerOf[c] ELSE c

\* str.upper()
upper(s) == [i \in 1..Len(s) |-> UpperChar(s[i])]

\* str.lower()
lower(s) == [i \in 1..Len(s) |-> LowerChar(s[i])]

\* \w of the re module: letters, digits and the underscore
WordChars ==
    Range(LowerLetters) \cup Range(UpperLetters) \cup DigitChars \cup {"_"}

IsWordChar(c) == c \in WordChars

\* \s of the re module, and the characters str.strip() removes
SpaceChars == {" ", "\n", "\t"}

IsSpace(c) == c \in SpaceChars

\* prefix found anywhere in s, not only at its start
startswith_anywhere(s, prefix) ==
    \E i \in 1..(Len(s) - Len(prefix) + 1) :
        SubSeq(s, i, i + Len(prefix) - 1) = prefix

\* str.startswith(prefix)
startswith(s, prefix) ==
    /\ Len(prefix) <= Len(s)
    /\ SubSeq(s, 1, Len(prefix)) = prefix

\* str.strip(): whitespace removed at both ends
strip(s) ==
    LET keep == {i \in 1..Len(s) : ~IsSpace(s[i])}
    IN  IF keep = {} THEN <<>>
        ELSE SubSeq(s, CHOOSE i \in keep : \A j \in keep : i <= j,
                       CHOOSE i \in keep : \A j \in keep : j <= i)

\* one trailing ';' removed, not every one
rstrip_one_semicolon(s) ==
    IF s # <<>> /\ s[Len(s)] = ";" THEN SubSeq(s, 1, Len(s) - 1) ELSE s

\* str.rstrip(';'): every trailing ';' removed
RECURSIVE rstrip_semicolon(_)
rstrip_semicolon(s) ==
    IF s # <<>> /\ s[Len(s)] = ";"
    THEN rstrip_semicolon(SubSeq(s, 1, Len(s) - 1))
    ELSE s

\* needle in s, for strings: needle occurs in s as a contiguous substring
contains(s, needle) ==
    \E i \in 1..(Len(s) - Len(needle) + 1) :
        SubSeq(s, i, i + Len(needle) - 1) = needle

RECURSIVE Concat(_)
Concat(parts) ==
    IF parts = <<>> THEN <<>> ELSE Head(parts) \o Concat(Tail(parts))

(***************************************************************************)
(* config.py                                                               *)
(***************************************************************************)
\* CATEGORY_MAPPING.values(), in the mapping's order
ALLOWED_CATEGORIES ==
    << <<"p","o","t","h","o","l","e","s">>,
       <<"G","a","r","b","a","g","e">>,
       <<"D","a","m","a","g","e","d","E","l","e","c","t","r","i","c","a","l","P","o","l","e","s">>,
       <<"s","t","r","e","e","t","l","i","g","h","t">>,
       <<"r","o","a","d","s">>,
       <<"W","a","t","e","r","L","o","g","g","i","n","g">>,
       <<"F","a","l","l","e","n","T","r","e","e","s">>,
       <<"o","t","h","e","r">> >>

\* cat not in ALLOWED_CATEGORIES tests membership in this set
AllowedSet == Range(ALLOWED_CATEGORIES)

(***************************************************************************)
(* query_executor.py: SupabaseClient._validate_sql                         *)
(***************************************************************************)
DANGEROUS_KEYWORDS ==
    << <<"D","R","O","P">>,
       <<"D","E","L","E","T","E">>,
       <<"T","R","U","N","C","A","T","E">>,
       <<"I","N","S","E","R","T">>,
       <<"U","P","D","A","T","E">>,
       <<"A","L","T","E","R">>,
       <<"C","R","E","A","T","E">>,
       <<"G","R","A","N","T">>,
       <<"R","E","V","O","K","E">>,
       <<"E","X","E","C">>,
       <<"E","X","E","C","U","T","E">>,
       <<"P","R","O","C","E","D","U","R","E">>,
       <<"F","U","N","C","T","I","O","N">> >>

\* the least index j >= i with s[j] = "\n", or Len(s) + 1: where .*$ stops
EndOfLine(s, i) ==
    IF \E j \in i..Len(s) : s[j] = "\n"
    THEN CHOOSE j \in i..Len(s) : s[j] = "\n" /\ \A k \in i..(j - 1) : s[k] # "\n"
    ELSE Len(s) + 1

\* re.sub(r'--.*$', '', sql, flags=re.MULTILINE), scanning from index i
RECURSIVE SubLineComments(_, _)
SubLineComments(s, i) ==
    IF i > Len(s) THEN <<>>
    ELSE IF i < Len(s) /\ s[i] = "-" /\ s[i + 1] = "-"
         THEN SubLineComments(s, EndOfLine(s, i))
         ELSE <<s[i]>> \o SubLineComments(s, i + 1)

\* the indices j >= i where "*/" starts
BlockEnds(s, i) == {j \in i..(Len(s) - 1) : s[j] = "*" /\ s[j + 1] = "/"}

\* re.sub(r'/\*.*?\*/', '', sql_clean, flags=re.DOTALL), scanning from index i
RECURSIVE SubBlockComments(_, _)
SubBlockComments(s, i) ==
    IF i > Len(s) THEN <<>>
    ELSE IF /\ i < Len(s) /\ s[i] = "/" /\ s[i + 1] = "*"
            /\ BlockEnds(s, i + 2) # {}
         THEN SubBlockComments(s,
                  (CHOOSE j \in BlockEnds(s, i + 2) :
                       \A k \in BlockEnds(s, i + 2) : j <= k) + 2)
         ELSE <<s[i]>> \o SubBlockComments(s, i + 1)

\* sql_clean of _validate_sql: line comments removed, then block comments
StripComments(sql) == SubBlockComments(SubLineComments(sql, 1), 1)

\* the keyword searched without the word boundaries
SearchWordNoBoundary(text, keyword) ==
    \E i \in 1..(Len(text) - Len(keyword) + 1) :
        /\ text[i] = keyword[1]
        /\ SubSeq(text, i, i + Len(keyword) - 1) = keyword

\* re.search(r'\b' + keyword + r'\b', text)
SearchWord(text, keyword) ==
    \E i \in 1..(Len(text) - Len(keyword) + 1) :
        /\ text[i] = keyword[1]
        /\ SubSeq(text, i, i + Len(keyword) - 1) = keyword
        /\ (i = 1 \/ ~IsWordChar(text[i - 1]))
        /\ (i + Len(keyword) - 1 = Len(text) \/ ~IsWordChar(text[i + Len(keyword)]))

\* the index after the run of whitespace that starts at i (\s*)
RECURSIVE SkipSpaces(_, _)
SkipSpaces(s, i) ==
    IF i <= Len(s) /\ IsSpace(s[i]) THEN SkipSpaces(s, i + 1) ELSE i

\* the least index j >= i with s[j] a quote, or Len(s) + 1: where [^']+ stops
RECURSIVE NextQuote(_, _)
NextQuote(s, i) ==
    IF i <= Len(s) /\ s[i] # Quote THEN NextQuote(s, i + 1) ELSE i

SelectWord == <<"S","E","L","E","C","T">>

CategoryWord == <<"c","a","t","e","g","o","r","y">>

\* a match of category\s*=\s*'([^']+)' (re.IGNORECASE) starting at index i:
\* [found, literal, next], next being the index after the match
MatchCategoryAt(s, i) ==
    LET eq  == SkipSpaces(s, i + Len(CategoryWord))
        q1  == SkipSpaces(s, eq + 1)
        q2  == NextQuote(s, q1 + 1)
        hit == /\ i + Len(CategoryWord) - 1 <= Len(s)
               /\ LowerChar(s[i]) = CategoryWord[1]
               /\ lower(SubSeq(s, i, i + Len(CategoryWord) - 1)) = CategoryWord
               /\ eq <= Len(s) /\ s[eq] = "="
               /\ q1 <= Len(s) /\ s[q1] = Quote
               /\ q2 <= Len(s)
               /\ q2 > q1 + 1
    IN  IF hit
        THEN [found |-> TRUE, literal |-> SubSeq(s, q1 + 1, q2 - 1), next |-> q2 + 1]
        ELSE [found |-> FALSE, literal |-> <<>>, next |-> i + 1]

\* re.findall(r"category\s*=\s*'([^']+)'", sql_clean, flags=re.IGNORECASE):
\* the literals of the non-overlapping matches, left to right, from index i
RECURSIVE FindCategories(_, _)
FindCategories(s, i) ==
    IF i > Len(s) THEN <<>>
    ELSE LET m == MatchCategoryAt(s, i)
         IN  IF m.found
             THEN <<m.literal>> \o FindCategories(s, m.next)
             ELSE FindCategories(s, m.next)

\* the outcome of a call that returns nothing
NoError == [raised |-> FALSE, type |-> "None", msg |-> "", arg |-> <<>>, tail |-> ""]

\* an exception: str(e) is msg, then arg, then tail
Raise(type, msg, arg, tail) ==
    [raised |-> TRUE, type |-> type, msg |-> msg, arg |-> arg, tail |-> tail]

\* the first element of seq that satisfies the test of the loop, as an index
FirstIndex(S) == CHOOSE i \in S : \A j \in S : i <= j

_validate_sql(sql) ==
    LET sql_clean      == StripComments(sql)
        sql_upper      == upper(sql_clean)
        hits           == {k \in DOMAIN DANGEROUS_KEYWORDS :
                               SearchWord(sql_upper, DANGEROUS_KEYWORDS[k])}
        category_match == FindCategories(sql_clean, 1)
        bad            == {c \in DOMAIN category_match :
                               category_match[c] \notin AllowedSet}
    IN  IF hits # {}
        THEN Raise("ValueError", "Query contains forbidden keyword: ",
                   DANGEROUS_KEYWORDS[FirstIndex(hits)],
                   ". Only SELECT queries are allowed.")
        ELSE IF ~startswith(upper(strip(sql_clean)), SelectWord)
        THEN Raise("ValueError", "Only SELECT queries are allowed", <<>>, "")
        ELSE IF bad # {}
        THEN Raise("ValueError", "Query uses a category that is not allowed: ",
                   category_match[FirstIndex(bad)], "")
        ELSE NoError

(***************************************************************************)
(* query_executor.py: SupabaseClient.execute_query                         *)
(***************************************************************************)

\* Python's None, and a value that is present: an optional value is a set
\* with at most one element
Null == {}

Some(v) == {v}

\* the value of an optional that is present
The(o) == CHOOSE v \in o : TRUE

\* what the remote procedure can answer: a structured error, a result
\* object without a data attribute, or a result object with data
RpcError(message)  == [kind |-> "error", message |-> message, data |-> <<>>]
RpcNoDataAttr      == [kind |-> "no_data_attr", message |-> <<>>, data |-> <<>>]
RpcData(data)      == [kind |-> "data", message |-> <<>>, data |-> data]

\* execute_query calling the remote procedure before it validates
execute_query_rpc_first(client, sql, reply) ==
    LET v             == _validate_sql(sql)
        sanitized_sql == rstrip_semicolon(strip(sql))
    IN  IF client = Null
        THEN [exc |-> Raise("AttributeError",
                            "'NoneType' object has no attribute 'rpc'", <<>>, ""),
              rpc |-> <<>>, data |-> <<>>]
        ELSE IF reply.kind = "error"
        THEN [exc |-> Raise("Exception", "Database query failed: ", reply.message, ""),
              rpc |-> <<sanitized_sql>>, data |-> <<>>]
        ELSE IF v.raised
        THEN [exc |-> v, rpc |-> <<sanitized_sql>>, data |-> <<>>]
        ELSE IF reply.kind = "no_data_attr"
        THEN [exc |-> NoError, rpc |-> <<sanitized_sql>>, data |-> <<>>]
        ELSE [exc |-> NoError, rpc |-> <<sanitized_sql>>, data |-> reply.data]

\* execute_query(sql) on the client handle client when the remote
\* procedure answers reply: the exception or the rows, and the text
\* submitted to execute_sql (rpc is the sequence of submitted texts)
execute_query(client, sql, reply) ==
    LET v             == _validate_sql(sql)
        sanitized_sql == rstrip_semicolon(strip(sql))
    IN  IF v.raised
        THEN [exc |-> v, rpc |-> <<>>, data |-> <<>>]
        ELSE IF client = Null
        THEN [exc |-> Raise("AttributeError",
                            "'NoneType' object has no attribute 'rpc'", <<>>, ""),
              rpc |-> <<>>, data |-> <<>>]
        ELSE IF reply.kind = "error"
        THEN [exc |-> Raise("Exception", "Database query failed: ", reply.message, ""),
              rpc |-> <<sanitized_sql>>, data |-> <<>>]
        ELSE IF reply.kind = "no_data_attr"
        THEN [exc |-> NoError, rpc |-> <<sanitized_sql>>, data |-> <<>>]
        ELSE [exc |-> NoError, rpc |-> <<sanitized_sql>>, data |-> reply.data]

(***************************************************************************)
(* The SQL texts the validator and the executor are applied to: every      *)
(* concatenation of at most MaxFrags fragments.                            *)
(***************************************************************************)
MaxFrags == 3

\* fragments around a forbidden keyword: a word, a separator, an identifier
\* tail, a statement terminator and a line comment
KeywordContext ==
    { <<"S","E","L","E","C","T">>,
      <<" ">>,
      <<"_","A","T">>,
      <<"-","-">>,
      <<"\n">> }

\* "Drop" for "DROP": the first letter kept, the rest lowered
Capitalized(w) == [i \in 1..Len(w) |-> IF i = 1 THEN w[i] ELSE LowerChar(w[i])]

\* the keyword in three letter cases
KeywordCases(k) ==
    { DANGEROUS_KEYWORDS[k], lower(DANGEROUS_KEYWORDS[k]),
      Capitalized(DANGEROUS_KEYWORDS[k]) }

\* category filters with an allowed literal, a literal that is not allowed,
\* an allowed literal in another letter case and an empty literal, a filter
\* on a column whose name ends in "category", the statement separator and
\* the comment delimiters
CategoryContext ==
    { <<"S","E","L","E","C","T"," ","*"," ","F","R","O","M"," ","t"," ","W","H","E","R","E"," ">>,
      <<"c","a","t","e","g","o","r","y"," ","="," ",Quote,"r","o","a","d","s",Quote>>,
      <<"C","A","T","E","G","O","R","Y","=",Quote,"b","o","g","u","s",Quote>>,
      <<"C","a","t","e","g","o","r","y"," "," ","="," "," ",Quote,"R","o","a","d","s",Quote>>,
      <<"c","a","t","e","g","o","r","y"," ","="," ",Quote,Quote>>,
      <<"s","u","b","c","a","t","e","g","o","r","y"," ","="," ",Quote,"o","t","h","e","r",Quote>>,
      <<" ","A","N","D"," ">>,
      <<";">>,
      <<"-","-">>,
      <<"\n">>,
      <<"/","*">>,
      <<"*","/">> }

SeqsUpTo(S, n) == UNION {[1..m -> S] : m \in 0..n}


ScenarioDropTable == <<"S","E","L","E","C","T"," ","*"," ","F","R","O","M"," ","i","s","s","u","e","s",";"," ","D","R","O","P"," ","T","A","B","L","E"," ","i","s","s","u","e","s",";">>

\* the fragment sets the texts are built over: one for each keyword, and
\* the one of the category filters
SqlFragments ==
    {KeywordContext \cup KeywordCases(k) : k \in DOMAIN DANGEROUS_KEYWORDS}
    \cup {CategoryContext}

\* the replies of the remote procedure
DbMessage == <<"s","y","n","t","a","x"," ","e","r","r","o","r">>

(***************************************************************************)
(* Result sets.  A cell is a JSON scalar or a nested JSON value; a row is  *)
(* an ordered mapping from column names to cells; data is a sequence of    *)
(* rows with the same columns.                                             *)
(***************************************************************************)
Cell(type, v) == [t |-> type, v |-> v]

\* a cell is a number, a string that parses as a date, another string, a
\* boolean, null, or a nested JSON array or object
CellTypes == {"num", "date", "str", "bool", "null", "json"}

\* pd.DataFrame(data).columns: the keys of the rows, in their order
Columns(data) == [i \in 1..Len(data[1]) |-> data[1][i].name]

\* df[col]: the cells of a column, row by row
ColumnCells(data, col) ==
    [r \in 1..Len(data) |->
        data[r][CHOOSE i \in 1..Len(data[r]) : data[r][i].name = col].cell]

\* the dtype pandas infers for a column of JSON values: numbers (with
\* nulls as NaN) give a numeric dtype, booleans alone give bool, and
\* everything else, an all-null column included, gives object
Dtype(data, col) ==
    LET types == {ColumnCells(data, col)[r].t : r \in 1..Len(data)}
    IN  IF types \subseteq {"num", "null"} /\ "num" \in types THEN "number"
        ELSE IF types = {"bool"} THEN "bool"
        ELSE "object"

\* df.select_dtypes(include=dtypes).columns.tolist(): in column order
RECURSIVE SelectSeq2(_, _, _)
SelectSeq2(cols, data, dtypes) ==
    IF cols = <<>> THEN <<>>
    ELSE (IF Dtype(data, Head(cols)) \in dtypes THEN <<Head(cols)>> ELSE <<>>)
         \o SelectSeq2(Tail(cols), data, dtypes)

select_dtypes(data, dtypes) == SelectSeq2(Columns(data), data, dtypes)

\* df.head(n): the first n rows
head(data, n) == SubSeq(data, 1, IF Len(data) < n THEN Len(data) ELSE n)

HeadRows == 5

\* df[col].head().notna().sum()
NotNaCount(data, col) ==
    Cardinality({r \in 1..Len(head(data, HeadRows)) :
                     ColumnCells(data, col)[r].t # "null"})

\* pd.to_datetime(df[col].head(), errors='coerce') can raise only on values
\* that are neither strings, numbers nor nulls; whether it does depends on
\* the pandas build, so it is a choice of the environment
CanRaiseToDatetime(data, col) ==
    \E r \in 1..Len(head(data, HeadRows)) :
        ColumnCells(data, col)[r].t \in {"bool", "json"}

\* seq without its first element equal to x (list.remove)
RECURSIVE Remove(_, _)
Remove(seq, x) ==
    IF seq = <<>> THEN <<>>
    ELSE IF Head(seq) = x THEN Tail(seq)
    ELSE <<Head(seq)>> \o Remove(Tail(seq), x)

(***************************************************************************)
(* analytics_output.py                                                     *)
(***************************************************************************)
PieWords ==
    { <<"d","i","s","t","r","i","b","u","t","i","o","n">>,
      <<"b","r","e","a","k","d","o","w","n">>,
      <<"p","e","r","c","e","n","t","a","g","e">>,
      <<"p","r","o","p","o","r","t","i","o","n">> }

ScatterWords ==
    { <<"c","o","r","r","e","l","a","t","i","o","n">>,
      <<"r","e","l","a","t","i","o","n","s","h","i","p">>,
      <<"v","s">>,
      <<"v","e","r","s","u","s">> }

\* any(word in question.lower() for word in words)
AnyWordIn(words, question) == \E w \in words : contains(lower(question), w)

\* the loop of _detect_chart_type over cat_cols[:]: todo is what is left of
\* the copy, st the two lists, raising the columns whose to_datetime raises
RECURSIVE DateLoop(_, _, _, _)
DateLoop(data, todo, st, raising) ==
    IF todo = <<>> THEN st
    ELSE LET col == Head(todo)
         IN  IF col \notin raising /\ NotNaCount(data, col) > 0
             THEN DateLoop(data, Tail(todo),
                           [date_cols |-> Append(st.date_cols, col),
                            cat_cols  |-> Remove(st.cat_cols, col)], raising)
             ELSE DateLoop(data, Tail(todo), st, raising)

Triple(chart_type, x_col, y_col) ==
    [chart_type |-> chart_type, x_col |-> x_col, y_col |-> y_col]

_detect_chart_type(data, question, raising) ==
    LET num_cols == select_dtypes(data, {"number"})
        cat0     == select_dtypes(data, {"object", "category"})
        date0    == select_dtypes(data, {"datetime64"})
        st       == DateLoop(data, cat0, [date_cols |-> date0, cat_cols |-> cat0],
                             raising)
        date_cols == st.date_cols
        cat_cols  == st.cat_cols
    IN  IF Len(date_cols) > 0 /\ Len(num_cols) > 0
        THEN Triple("line", Some(date_cols[1]), Some(num_cols[1]))
        ELSE IF Len(cat_cols) >= 1 /\ Len(num_cols) >= 1
        THEN IF AnyWordIn(PieWords, question)
             THEN Triple("pie", Some(cat_cols[1]), Some(num_cols[1]))
             ELSE Triple("bar", Some(cat_cols[1]), Some(num_cols[1]))
        ELSE IF Len(num_cols) >= 2
        THEN IF AnyWordIn(ScatterWords, question)
             THEN Triple("scatter", Some(num_cols[1]), Some(num_cols[2]))
             ELSE Triple("bar", Some(num_cols[1]), Some(num_cols[2]))
        ELSE Triple("table", Null, Null)

\* the row cap of _generate_plotly_config
PlotRowCap == 100

\* _generate_plotly_config without the row cap
_generate_plotly_config_uncapped(data, chart_type, x_col, y_col, px_raises) ==
    IF chart_type = "table" \/ x_col = Null \/ x_col = Some("") THEN Null
    ELSE IF chart_type \notin {"bar", "line", "pie", "scatter"} THEN Null
    ELSE IF px_raises THEN Null
    ELSE Some([kind |-> chart_type, x |-> The(x_col), y |-> The(y_col),
               rows |-> data])

\* _generate_plotly_config: the figure is described by its kind, its two
\* columns and the rows it was given; px_raises is whether plotly raises.
\* "not x_col" holds for None and for the empty column name
_generate_plotly_config(data, chart_type, x_col, y_col, px_raises) ==
    IF chart_type = "table" \/ x_col = Null \/ x_col = Some("") THEN Null
    ELSE IF chart_type \notin {"bar", "line", "pie", "scatter"} THEN Null
    ELSE IF px_raises THEN Null
    ELSE Some([kind |-> chart_type, x |-> The(x_col), y |-> The(y_col),
               rows |-> IF Len(data) > PlotRowCap THEN head(data, PlotRowCap)
                        ELSE data])

\* Series.mode() and Series.nunique() hash the values: a nested JSON value
\* is a list or a dict, which is unhashable
Unhashable(data, col) ==
    \E r \in 1..Len(data) : ColumnCells(data, col)[r].t = "json"

UnhashableError ==
    Raise("TypeError", "unhashable type: 'dict'", <<>>, "")

\* _generate_summary: the exception it raises, or the summary with the
\* columns that get numeric and categorical statistics
_generate_summary(data) ==
    LET num_cols == select_dtypes(data, {"number"})
        cat_cols == select_dtypes(data, {"object", "category"})
    IN  IF \E c \in Range(cat_cols) : Unhashable(data, c)
        THEN [exc |-> UnhashableError, value |-> Null]
        ELSE [exc |-> NoError,
              value |-> Some([total_rows |-> Len(data),
                              columns |-> Columns(data),
                              column_types |-> [i \in 1..Len(Columns(data)) |->
                                                   Dtype(data, Columns(data)[i])],
                              numeric_stats |-> num_cols,
                              categorical_stats |-> cat_cols])]

Analytics(chart_type, plotly_config, data_summary, ran) ==
    [chart_type |-> chart_type, plotly_config |-> plotly_config,
     data_summary |-> data_summary, ran |-> ran]

\* the steps of the try block of generate_analytics
TrySteps == <<"_detect_chart_type", "_generate_plotly_config", "_generate_summary">>

\* the try block of generate_analytics and its except clause
TryAnalytics(data, question, raising, px_raises) ==
    LET d == _detect_chart_type(data, question, raising)
        plotly_config == _generate_plotly_config(data, d.chart_type, d.x_col,
                                                 d.y_col, px_raises)
        s == _generate_summary(data)
    IN  IF s.exc.raised
        THEN Analytics("error", Null, [error |-> s.exc], TrySteps)
        ELSE Analytics(d.chart_type, plotly_config, The(s.value), TrySteps)

\* generate_analytics without its guard: an empty result set reaches the
\* try block, where no column is found
generate_analytics_unguarded(data, question, raising, px_raises) ==
    IF data = <<>>
    THEN Analytics("table", Null,
                   [total_rows |-> 0, columns |-> <<>>, column_types |-> <<>>,
                    numeric_stats |-> <<>>, categorical_stats |-> <<>>], TrySteps)
    ELSE TryAnalytics(data, question, raising, px_raises)

\* generate_analytics; ran lists the steps of the try block that were run
generate_analytics(data, question, raising, px_raises) ==
    IF data = <<>>
    THEN Analytics("none", Null, [message |-> "No data returned"], <<>>)
    ELSE TryAnalytics(data, question, raising, px_raises)

\* the first n elements of seq
Take(seq, n) == SubSeq(seq, 1, IF Len(seq) < n THEN Len(seq) ELSE n)

\* generate_text_summary: the exception it raises, or the parts of the text
generate_text_summary(data, question) ==
    IF data = <<>>
    THEN [exc |-> NoError,
          value |-> Some([text |-> "No results found for your question.",
                          found |-> 0, numeric |-> <<>>, common |-> <<>>])]
    ELSE LET num_cols == select_dtypes(data, {"number"})
             cat_cols == select_dtypes(data, {"object", "category"})
         IN  IF \E c \in Range(Take(cat_cols, 1)) : Unhashable(data, c)
             THEN [exc |-> UnhashableError, value |-> Null]
             ELSE [exc |-> NoError,
                   value |-> Some([text |-> "Found",
                                   found |-> Len(data),
                                   numeric |-> Take(num_cols, 2),
                                   common |-> Take(cat_cols, 1)])]

(***************************************************************************)
(* model_service.py                                                        *)
(***************************************************************************)
\* the least index at or after i where pat occurs in s, or 0 (str.find)
FindFrom(s, pat, i) ==
    LET at == {j \in i..(Len(s) - Len(pat) + 1) : SubSeq(s, j, j + Len(pat) - 1) = pat}
    IN  IF at = {} THEN 0 ELSE CHOOSE j \in at : \A k \in at : j <= k

\* s.replace(pat, ""), scanning from index i
RECURSIVE RemoveAll(_, _, _)
RemoveAll(s, pat, i) ==
    LET j == FindFrom(s, pat, i)
    IN  IF j = 0 THEN SubSeq(s, i, Len(s))
        ELSE SubSeq(s, i, j - 1) \o RemoveAll(s, pat, j + Len(pat))

FenceSql == <<Backtick,Backtick,Backtick,"s","q","l">>

Fence == <<Backtick,Backtick,Backtick>>

\* SQLOutputParser.parse
parse(text) ==
    LET unfenced == strip(RemoveAll(RemoveAll(text, FenceSql, 1), Fence, 1))
        at       == FindFrom(upper(unfenced), SelectWord, 1)
    IN  IF contains(upper(unfenced), SelectWord)
        THEN strip(SubSeq(unfenced, at, Len(unfenced)))
        ELSE strip(unfenced)

\* what the completion API can answer: a failure of the call, or a message
LlmError         == [kind |-> "error", content |-> <<>>]
LlmContent(text) == [kind |-> "content", content |-> text]

(***************************************************************************)
(* The inputs of the model.                                                *)
(***************************************************************************)
MaxCols == 2
MaxRows == 2

\* the columns result sets are made of, each with the cells of its rows:
\* text, numbers, date strings, numbers with a null, nulls alone, a null
\* before text, booleans, nested JSON values, and text under the empty key
ColumnPool ==
    {"category", "count", "total", "created_at", "latitude", "description",
     "status", "resolved", "tags", ""}

TextValues  == <<"potholes", "roads", "other", "Garbage">>
CountValues == <<"5", "3", "8", "1">>
TotalValues == <<"10", "20", "30", "40">>
DateValues  == <<"2024-01-01", "2024-02-01", "2024-03-01", "2024-04-01">>

\* a row that is a JSON scalar and not an object is written as one cell
\* under the key pd.DataFrame gives it, 0; no column of the pool has it
ScalarKey == "0"

\* some row of data is a scalar: data is not a list of dicts
HasScalarRows(data) ==
    \E r \in 1..Len(data) : \E i \in 1..Len(data[r]) : data[r][i].name = ScalarKey

\* the values repeat from the first when the rows outnumber them
Cyc(values, r) == values[((r - 1) % Len(values)) + 1]

\* the cell of row r in column col
CellOf(col, r) ==
    CASE col = "category"    -> Cell("str", Cyc(TextValues, r))
      [] col = ""            -> Cell("str", Cyc(TextValues, r))
      [] col = ScalarKey     -> Cell("str", Cyc(TextValues, r))
      [] col = "count"       -> Cell("num", Cyc(CountValues, r))
      [] col = "total"       -> Cell("num", Cyc(TotalValues, r))
      [] col = "created_at"  -> Cell("date", Cyc(DateValues, r))
      [] col = "latitude"    -> IF r = 1 THEN Cell("num", "12.9")
                                ELSE Cell("null", "null")
      [] col = "description" -> Cell("null", "null")
      [] col = "status"      -> IF r = 1 THEN Cell("null", "null")
                                ELSE Cell("str", "open")
      [] col = "resolved"    -> Cell("bool", "true")
      [] col = "tags"        -> Cell("json", "[]")

\* the result set with n rows and the columns cols, left to right
Dataset(cols, n) ==
    [r \in 1..n |->
        [i \in 1..Len(cols) |-> [name |-> cols[i], cell |-> CellOf(cols[i], r)]]]

\* sequences of distinct columns
ColumnLists ==
    {cols \in UNION {[1..m -> ColumnPool] : m \in 1..MaxCols} :
        \A i, j \in DOMAIN cols : i # j => cols[i] # cols[j]}

Datasets ==
    {<<>>} \cup {Dataset(cols, n) : cols \in ColumnLists, n \in 1..MaxRows}

\* rows = [{category: "potholes", count: 5}, {category: "roads", count: 3}]
ScenarioCategoryCount == Dataset(<<"category", "count">>, 2)

\* the chart types generate_analytics and _detect_chart_type produce
ChartTypes == {"bar", "line", "pie", "scatter", "table", "none", "error"}

\* row counts below, at and above the row cap of the chart config builder
PlotRowCounts ==
    (1..MaxRows) \cup {PlotRowCap - 1, PlotRowCap, PlotRowCap + 1, PlotRowCap + MaxRows}

\* the column pairs of the result sets given to the chart config builder
PlotColumns == {<<"category", "count">>, <<"created_at", "total">>}

\* the arguments of _generate_plotly_config: a result set, a chart type,
\* and the x column absent, present, or the empty name
PlotCalls ==
    {[fn |-> "_generate_plotly_config", data |-> Dataset(cols, n),
      chart_type |-> ct, x_col |-> x, y_col |-> Some(cols[2])] :
        cols \in PlotColumns, n \in PlotRowCounts, ct \in ChartTypes,
        x \in {Null, Some("")} \cup {Some(c) : c \in {"category", "created_at"}}}

ScenarioBreakdown == <<"S","h","o","w"," ","b","r","e","a","k","d","o","w","n"," ","o","f"," ","c","o","m","p","l","a","i","n","t","s">>

Questions ==
    { ScenarioBreakdown,
      <<"H","o","w"," ","m","a","n","y"," ","c","o","m","p","l","a","i","n","t","s">>,
      <<"P","E","R","C","E","N","T","A","G","E"," ","b","y"," ","s","t","a","t","u","s">>,
      <<"D","i","s","t","r","i","b","u","t","i","o","n">>,
      <<"p","r","o","p","o","r","t","i","o","n","s">>,
      <<"c","o","u","n","t"," ","v","s"," ","t","o","t","a","l">> }

\* the answers of the completion API in the pipeline
LlmReplies ==
    { LlmError,
      LlmContent(<<Backtick,Backtick,Backtick,"s","q","l","\n","S","E","L","E","C","T"," ","*"," ","F","R","O","M"," ","t"," ","W","H","E","R","E"," ","c","a","t","e","g","o","r","y"," ","="," ",Quote,"r","o","a","d","s",Quote,";","\n",Backtick,Backtick,Backtick>>),
      LlmContent(<<"S","u","r","e",":"," ","s","e","l","e","c","t"," ","c","a","t","e","g","o","r","y",","," ","c","o","u","n","t","(","*",")"," ","f","r","o","m"," ","t">>),
      LlmContent(<<"D","R","O","P"," ","T","A","B","L","E"," ","t">>),
      LlmContent(<<"S","E","L","E","C","T"," ","*"," ","F","R","O","M"," ","t"," ","W","H","E","R","E"," ","c","a","t","e","g","o","r","y"," ","="," ",Quote,"b","o","g","u","s",Quote>>),
      LlmContent(<<"I"," ","c","a","n","n","o","t"," ","a","n","s","w","e","r">>) }

\* the result sets of the remote procedure in the pipeline
\* data = ["potholes", "roads"]: the remote procedure returned a JSON array
\* of strings
ScalarRows == Dataset(<<ScalarKey>>, 2)

PipelineData ==
    { <<>>, ScenarioCategoryCount, Dataset(<<"category", "tags">>, 1),
      Dataset(<<"tags", "count">>, 1), ScalarRows }

PipelineReplies ==
    {RpcError(DbMessage), RpcNoDataAttr} \cup {RpcData(d) : d \in PipelineData}

PipelineQuestions == {ScenarioBreakdown, <<"H","o","w"," ","m","a","n","y"," ","c","o","m","p","l","a","i","n","t","s">>}

\* the inputs of concurrent requests
ConcLlmReplies ==
    { LlmError,
      LlmContent(<<"S","E","L","E","C","T"," ","1",";">>),
      LlmContent(<<"D","R","O","P"," ","T","A","B","L","E"," ","t">>) }

ConcReplies == {RpcError(DbMessage), RpcData(<<>>), RpcData(Dataset(<<"tags">>, 1))}

ConcQuestions == {<<"H","o","w"," ","m","a","n","y">>}

\* the columns whose to_datetime the environment can make raise, and
\* whether it can make plotly raise
RaisingChoices(data) ==
    IF data = <<>> THEN {{}}
    ELSE SUBSET {c \in Range(Columns(data)) :
                    Dtype(data, c) = "object" /\ CanRaiseToDatetime(data, c)}

PxChoices(data) ==
    IF \E r \in 1..Len(data) : \E i \in 1..Len(data[r]) : data[r][i].cell.t = "json"
    THEN BOOLEAN ELSE {FALSE}

\* the replies of the remote procedure to execute_query called on its own
RpcReplies ==
    {RpcError(DbMessage), RpcNoDataAttr, RpcData(<<>>), RpcData(ScenarioCategoryCount)}


(***************************************************************************)
(* State.                                                                  *)
(*   entry            the module uvicorn runs: main.py or app.py           *)
(*   env              which environment variables are set                  *)
(*   proc             the process: booting, serving, or exited             *)
(*   groq_client, prompt_template   fields of the global groq_service      *)
(*   supabase_client                field of the global supabase_client    *)
(*   pc, question, sql_query, data, analytics, summary, response           *)
(*                    per request: position and locals of chat()           *)
(*   llm_calls, rpc_log   per request: completion calls made, and the      *)
(*                    texts submitted to execute_sql                       *)
(*   call, ret        arguments and result of one function of the source   *)
(*                    that is checked on its own                           *)
(***************************************************************************)
VARIABLES entry, env, proc, groq_client, prompt_template, supabase_client,
          pc, question, sql_query, data, analytics, summary, response,
          llm_calls, rpc_log, call, ret

handles  == <<groq_client, prompt_template, supabase_client>>
process  == <<entry, env, proc>>
requests == <<pc, question, sql_query, data, analytics, summary, response,
              llm_calls, rpc_log>>
vars     == <<entry, env, proc, groq_client, prompt_template, supabase_client,
              pc, question, sql_query, data, analytics, summary, response,
              llm_calls, rpc_log, call, ret>>

\* an initialized client handle
Client == Some("client")

\* ret before the call has returned, and call when no function is checked
NotReturned == [returned |-> FALSE]
NoCall      == [fn |-> "none"]

Envs == [GROQ_API_KEY : BOOLEAN, SUPABASE_URL : BOOLEAN, SUPABASE_KEY : BOOLEAN]

FullEnv == [GROQ_API_KEY |-> TRUE, SUPABASE_URL |-> TRUE, SUPABASE_KEY |-> TRUE]

\* n requests, none received yet
NoRequests(n) ==
    /\ pc = [r \in 1..n |-> "idle"]
    /\ question = [r \in 1..n |-> <<>>]
    /\ sql_query = [r \in 1..n |-> <<>>]
    /\ data = [r \in 1..n |-> Null]
    /\ analytics = [r \in 1..n |-> Null]
    /\ summary = [r \in 1..n |-> Null]
    /\ response = [r \in 1..n |-> Null]
    /\ llm_calls = [r \in 1..n |-> 0]
    /\ rpc_log = [r \in 1..n |-> <<>>]

\* the module globals after import: both services constructed, no handle
NoHandles ==
    /\ groq_client = Null
    /\ prompt_template = Null
    /\ supabase_client = Null

\* a process whose handles were initialized, serving no request
InitializedIdle ==
    /\ entry = "main" /\ env = FullEnv /\ proc = "serving"
    /\ groq_client = Client /\ prompt_template = Some("template")
    /\ supabase_client = Client
    /\ NoRequests(0)

(***************************************************************************)
(* main.py: lifespan; app.py has no startup hook                           *)
(***************************************************************************)
\* groq_service.initialize() in lifespan
InitGroq ==
    /\ entry = "main" /\ proc = "boot"
    /\ IF env.GROQ_API_KEY
       THEN /\ groq_client' = Client
            /\ prompt_template' = Some("template")
            /\ proc' = "groq_ready"
       ELSE /\ proc' = "exited"
            /\ UNCHANGED <<groq_client, prompt_template>>
    /\ UNCHANGED <<entry, env, supabase_client, requests, call, ret>>

\* supabase_client.initialize() in lifespan, then the application serves
InitSupabase ==
    /\ entry = "main" /\ proc = "groq_ready"
    /\ IF env.SUPABASE_URL /\ env.SUPABASE_KEY
       THEN /\ supabase_client' = Client
            /\ proc' = "serving"
       ELSE /\ proc' = "exited"
            /\ UNCHANGED supabase_client
    /\ UNCHANGED <<entry, env, groq_client, prompt_template, requests, call, ret>>

(***************************************************************************)
(* chatbot.py: chat                                                        *)
(***************************************************************************)
SecurityPrefix == "Security validation failed: "
InternalPrefix == "An internal error occurred: "

\* ValueError and the subclass of it that pydantic raises
ValueErrorTypes == {"ValueError", "ValidationError"}

\* isinstance(e, ValueError)
IsValueError(e) == e.type \in ValueErrorTypes

ChatResponse(success, q, sql_generated, d, a, s, error) ==
    [success |-> success, question |-> q, sql_generated |-> sql_generated,
     data |-> d, analytics |-> a, summary |-> s, error |-> error]

\* the except block of chat, were it to pass on the rows already fetched
ErrorResponse_keeps_data(r, sql, e) ==
    ChatResponse(FALSE, question[r], Some(sql), data[r], Null, Null,
                 Some([prefix |-> IF IsValueError(e) THEN SecurityPrefix
                                  ELSE InternalPrefix,
                       exc |-> e]))

\* the except block of chat: the response for exception e
ErrorResponse(r, sql, e) ==
    ChatResponse(FALSE, question[r], Some(sql), Null, Null, Null,
                 Some([prefix |-> IF IsValueError(e) THEN SecurityPrefix
                                  ELSE InternalPrefix,
                       exc |-> e]))

\* chat is entered: start_time and sql_query = "" are set
Receive(r, questions) ==
    /\ proc = "serving"
    /\ pc[r] \in {"idle", "done"}
    /\ \E q \in questions : question' = [question EXCEPT ![r] = q]
    /\ pc' = [pc EXCEPT ![r] = "get_schema"]
    /\ sql_query' = [sql_query EXCEPT ![r] = <<>>]
    /\ data' = [data EXCEPT ![r] = Null]
    /\ analytics' = [analytics EXCEPT ![r] = Null]
    /\ summary' = [summary EXCEPT ![r] = Null]
    /\ response' = [response EXCEPT ![r] = Null]
    /\ llm_calls' = [llm_calls EXCEPT ![r] = 0]
    /\ rpc_log' = [rpc_log EXCEPT ![r] = <<>>]
    /\ UNCHANGED <<process, handles, call, ret>>

\* schema = supabase_client.get_schema(): a constant text
GetSchema(r) ==
    /\ pc[r] = "get_schema"
    /\ pc' = [pc EXCEPT ![r] = "generate_sql"]
    /\ UNCHANGED <<process, handles, question, sql_query, data, analytics,
                   summary, response, llm_calls, rpc_log, call, ret>>

\* generate_sql calling the API a second time when the first call fails
generate_sql_retry(template, client, reply) ==
    IF template = Null \/ client = Null
    THEN [exc |-> Raise("AttributeError",
                        "'NoneType' object has no attribute 'format'", <<>>, ""),
          sql |-> <<>>, calls |-> 0]
    ELSE IF reply.kind = "error"
    THEN [exc |-> Raise("APIConnectionError", "Connection error.", <<>>, ""),
          sql |-> <<>>, calls |-> 2]
    ELSE [exc |-> NoError, sql |-> parse(strip(reply.content)), calls |-> 1]

\* GroqService.generate_sql with the API answering reply: the exception
\* or the SQL text, and the number of completion calls made
generate_sql(template, client, reply) ==
    IF template = Null
    THEN [exc |-> Raise("AttributeError",
                        "'NoneType' object has no attribute 'format'", <<>>, ""),
          sql |-> <<>>, calls |-> 0]
    ELSE IF client = Null
    THEN [exc |-> Raise("AttributeError",
                        "'NoneType' object has no attribute 'chat'", <<>>, ""),
          sql |-> <<>>, calls |-> 0]
    ELSE IF reply.kind = "error"
    THEN [exc |-> Raise("APIConnectionError", "Connection error.", <<>>, ""),
          sql |-> <<>>, calls |-> 1]
    ELSE [exc |-> NoError, sql |-> parse(strip(reply.content)), calls |-> 1]

\* the step of chat that calls generate_sql, dropping the client handle
\* when the call fails
GenerateSql_drops_client(r, replies) ==
    /\ pc[r] = "generate_sql"
    /\ \E reply \in replies :
         LET out == generate_sql(prompt_template, groq_client, reply)
         IN  /\ llm_calls' = [llm_calls EXCEPT ![r] = @ + out.calls]
             /\ IF out.exc.raised
                THEN /\ response' = [response EXCEPT ![r] =
                                        Some(ErrorResponse(r, sql_query[r], out.exc))]
                     /\ pc' = [pc EXCEPT ![r] = "done"]
                     /\ groq_client' = Null
                     /\ UNCHANGED sql_query
                ELSE /\ sql_query' = [sql_query EXCEPT ![r] = out.sql]
                     /\ pc' = [pc EXCEPT ![r] = "execute_query"]
                     /\ UNCHANGED <<response, groq_client>>
    /\ UNCHANGED <<process, prompt_template, supabase_client, question, data,
                   analytics, summary, rpc_log, call, ret>>

\* sql_query = groq_service.generate_sql(...)
GenerateSql(r, replies) ==
    /\ pc[r] = "generate_sql"
    /\ \E reply \in replies :
         LET out == generate_sql(prompt_template, groq_client, reply)
         IN  /\ llm_calls' = [llm_calls EXCEPT ![r] = @ + out.calls]
             /\ IF out.exc.raised
                THEN /\ response' = [response EXCEPT ![r] =
                                        Some(ErrorResponse(r, sql_query[r], out.exc))]
                     /\ pc' = [pc EXCEPT ![r] = "done"]
                     /\ UNCHANGED sql_query
                ELSE /\ sql_query' = [sql_query EXCEPT ![r] = out.sql]
                     /\ pc' = [pc EXCEPT ![r] = "execute_query"]
                     /\ UNCHANGED response
    /\ UNCHANGED <<process, handles, question, data, analytics, summary,
                   rpc_log, call, ret>>

\* data = supabase_client.execute_query(sql_query)
ExecuteQuery(r, replies) ==
    /\ pc[r] = "execute_query"
    /\ \E reply \in replies :
         LET out == execute_query(supabase_client, sql_query[r], reply)
         IN  /\ rpc_log' = [rpc_log EXCEPT ![r] = @ \o out.rpc]
             /\ IF out.exc.raised
                THEN /\ response' = [response EXCEPT ![r] =
                                        Some(ErrorResponse(r, sql_query[r], out.exc))]
                     /\ pc' = [pc EXCEPT ![r] = "done"]
                     /\ UNCHANGED data
                ELSE /\ data' = [data EXCEPT ![r] = Some(out.data)]
                     /\ pc' = [pc EXCEPT ![r] = "generate_analytics"]
                     /\ UNCHANGED response
    /\ UNCHANGED <<process, handles, question, sql_query, analytics, summary,
                   llm_calls, call, ret>>

\* analytics_data_numpy = analytics_service.generate_analytics(...)
GenerateAnalytics(r) ==
    /\ pc[r] = "generate_analytics"
    /\ \E raising \in RaisingChoices(The(data[r])), px_raises \in PxChoices(The(data[r])) :
         analytics' = [analytics EXCEPT ![r] =
                          Some(generate_analytics(The(data[r]), question[r],
                                                  raising, px_raises))]
    /\ pc' = [pc EXCEPT ![r] = "generate_text_summary"]
    /\ UNCHANGED <<process, handles, question, sql_query, data, summary,
                   response, llm_calls, rpc_log, call, ret>>

\* summary = analytics_service.generate_text_summary(...)
GenerateTextSummary(r) ==
    /\ pc[r] = "generate_text_summary"
    /\ LET out == generate_text_summary(The(data[r]), question[r])
       IN  IF out.exc.raised
           THEN /\ response' = [response EXCEPT ![r] =
                                   Some(ErrorResponse(r, sql_query[r], out.exc))]
                /\ pc' = [pc EXCEPT ![r] = "done"]
                /\ UNCHANGED summary
           ELSE /\ summary' = [summary EXCEPT ![r] = out.value]
                /\ pc' = [pc EXCEPT ![r] = "respond"]
                /\ UNCHANGED response
    /\ UNCHANGED <<process, handles, question, sql_query, data, analytics,
                   llm_calls, rpc_log, call, ret>>

\* AnalyticsData(**final_analytics): the three fields of the model
AnalyticsData(a) ==
    [chart_type |-> a.chart_type, plotly_config |-> a.plotly_config,
     data_summary |-> a.data_summary]

\* ChatResponse(data=...) validates data as List[Dict[str, Any]]: a row
\* that is no dict raises pydantic's ValidationError
ValidationError ==
    Raise("ValidationError", "1 validation error for ChatResponse", <<>>, "")

\* convert_numpy_to_python and the successful ChatResponse, built inside
\* the try block of chat
Respond(r) ==
    /\ pc[r] = "respond"
    /\ response' = [response EXCEPT ![r] =
                       IF HasScalarRows(The(data[r]))
                       THEN Some(ErrorResponse(r, sql_query[r], ValidationError))
                       ELSE Some(ChatResponse(TRUE, question[r], Some(sql_query[r]),
                                              data[r],
                                              Some(AnalyticsData(The(analytics[r]))),
                                              summary[r], Null))]
    /\ pc' = [pc EXCEPT ![r] = "done"]
    /\ UNCHANGED <<process, handles, question, sql_query, data, analytics,
                   summary, llm_calls, rpc_log, call, ret>>

(***************************************************************************)
(* Functions checked on their own.                                         *)
(***************************************************************************)
\* the reply of a remote procedure that was not called
NoReply == [kind |-> "none"]

\* execute_query on an initialized handle; ret also records the reply the
\* remote procedure gave, when it was called
CallExecuteQuery ==
    /\ call.fn = "execute_query"
    /\ ret = NotReturned
    /\ \E reply \in RpcReplies :
           \E out \in {execute_query(Client, call.sql, reply)} :
               ret' = [exc |-> out.exc, rpc |-> out.rpc, data |-> out.data,
                       reply |-> IF out.rpc = <<>> THEN NoReply ELSE reply]
    /\ UNCHANGED <<process, handles, requests, call>>

CallDetectChartType ==
    /\ call.fn = "_detect_chart_type"
    /\ ret = NotReturned
    /\ \E raising \in RaisingChoices(call.data) :
           ret' = _detect_chart_type(call.data, call.question, raising)
    /\ UNCHANGED <<process, handles, requests, call>>

CallGenerateAnalytics ==
    /\ call.fn = "generate_analytics"
    /\ ret = NotReturned
    /\ \E raising \in RaisingChoices(call.data), px_raises \in PxChoices(call.data) :
           ret' = generate_analytics(call.data, call.question, raising, px_raises)
    /\ UNCHANGED <<process, handles, requests, call>>

CallGeneratePlotlyConfig ==
    /\ call.fn = "_generate_plotly_config"
    /\ ret = NotReturned
    /\ \E px_raises \in PxChoices(call.data) :
           ret' = [config |-> _generate_plotly_config(call.data, call.chart_type,
                                                      call.x_col, call.y_col,
                                                      px_raises)]
    /\ UNCHANGED <<process, handles, requests, call>>

(***************************************************************************)
(* Specifications.                                                         *)
(***************************************************************************)
\* the process from its start, under either entry point and any
\* environment, serving one request at a time
Init ==
    /\ entry \in {"main", "app"}
    /\ env \in Envs
    /\ proc = IF entry = "main" THEN "boot" ELSE "serving"
    /\ NoHandles
    /\ NoRequests(1)
    /\ call = NoCall /\ ret = NotReturned

Next ==
    \/ InitGroq
    \/ InitSupabase
    \/ \E r \in DOMAIN pc : Receive(r, PipelineQuestions)
    \/ \E r \in DOMAIN pc : GetSchema(r)
    \/ \E r \in DOMAIN pc : GenerateSql(r, LlmReplies)
    \/ \E r \in DOMAIN pc : ExecuteQuery(r, PipelineReplies)
    \/ \E r \in DOMAIN pc : GenerateAnalytics(r)
    \/ \E r \in DOMAIN pc : GenerateTextSummary(r)
    \/ \E r \in DOMAIN pc : Respond(r)

Spec == Init /\ [][Next]_vars

\* concurrent requests, their steps interleaved
MaxRequests == 2

InitConc ==
    /\ entry \in {"main", "app"}
    /\ env \in {FullEnv}
    /\ proc = IF entry = "main" THEN "boot" ELSE "serving"
    /\ NoHandles
    /\ NoRequests(MaxRequests)
    /\ call = NoCall /\ ret = NotReturned

NextConc ==
    \/ InitGroq
    \/ InitSupabase
    \/ \E r \in DOMAIN pc : Receive(r, ConcQuestions)
    \/ \E r \in DOMAIN pc : GetSchema(r)
    \/ \E r \in DOMAIN pc : GenerateSql(r, ConcLlmReplies)
    \/ \E r \in DOMAIN pc : ExecuteQuery(r, ConcReplies)
    \/ \E r \in DOMAIN pc : GenerateAnalytics(r)
    \/ \E r \in DOMAIN pc : GenerateTextSummary(r)
    \/ \E r \in DOMAIN pc : Respond(r)

SpecConc == InitConc /\ [][NextConc]_vars

\* one call of execute_query on an initialized handle, for every text
InitSql ==
    /\ InitializedIdle
    /\ \/ \E S \in SqlFragments : \E fs \in SeqsUpTo(S, MaxFrags) :
               call = [fn |-> "execute_query", sql |-> Concat(fs)]
       \/ call = [fn |-> "execute_query", sql |-> ScenarioDropTable]
    /\ ret = NotReturned

NextSql == CallExecuteQuery

SpecSql == InitSql /\ [][NextSql]_vars

\* one call of _detect_chart_type or of generate_analytics, for every
\* result set and question, or one call of _generate_plotly_config
InitChart ==
    /\ InitializedIdle
    /\ \/ /\ call \in {[fn |-> f, data |-> d, question |-> q] :
                          f \in {"_detect_chart_type", "generate_analytics"},
                          d \in Datasets, q \in Questions}
          /\ (call.fn = "_detect_chart_type" => call.data # <<>>)
       \/ call \in PlotCalls
    /\ ret = NotReturned

NextChart == CallDetectChartType \/ CallGenerateAnalytics \/ CallGeneratePlotlyConfig

SpecChart == InitChart /\ [][NextChart]_vars

(***************************************************************************)
(* Properties of the validator and the executor (SpecSql).                 *)
(***************************************************************************)

\* the words of s: its maximal runs of letters, digits and underscores
Words(s) ==
    LET starts == {i \in 1..Len(s) :
                       IsWordChar(s[i]) /\ (i = 1 \/ ~IsWordChar(s[i - 1]))}
        EndOf(i) == CHOOSE j \in i..Len(s) :
                       /\ \A k \in i..j : IsWordChar(s[k])
                       /\ (j = Len(s) \/ ~IsWordChar(s[j + 1]))
    IN  {SubSeq(s, i, EndOf(i)) : i \in starts}

\* a and b are the same text up to letter case
SameLetters(a, b) ==
    /\ Len(a) = Len(b)
    /\ \A i \in 1..Len(a) : UpperChar(a[i]) = UpperChar(b[i])

\* K is a whole word of s, in any letter case
IsWholeWord(K, s) == \E w \in Words(s) : SameLetters(w, K)

\* K occurs in s inside a longer word, in any letter case
InsideLongerWord(K, s) ==
    \E w \in Words(s) :
        /\ Len(w) > Len(K)
        /\ \E i \in 1..(Len(w) - Len(K) + 1) :
               SameLetters(SubSeq(w, i, i + Len(K) - 1), K)

ForbiddenKeywordMsg == "Query contains forbidden keyword: "
OnlySelectMsg       == "Only SELECT queries are allowed"
CategoryMsg         == "Query uses a category that is not allowed: "

Returned == ret # NotReturned

\* C1: a query whose comment-stripped form holds a forbidden keyword as a
\* whole word, in any letter case, is rejected with a reason that names a
\* forbidden keyword, and nothing is submitted; a keyword that is not a
\* whole word of the query (it occurs at most inside a longer identifier)
\* is never the keyword the rejection names.
C1_ForbiddenKeywordRejected ==
    Returned =>
        LET words == Words(StripComments(call.sql))
        IN  \A k \in DOMAIN DANGEROUS_KEYWORDS :
                LET K == DANGEROUS_KEYWORDS[k]
                IN  IF \E w \in words : SameLetters(w, K)
                    THEN /\ ret.exc.raised
                         /\ ret.exc.type = "ValueError"
                         /\ ret.exc.msg = ForbiddenKeywordMsg
                         /\ ret.exc.arg \in Range(DANGEROUS_KEYWORDS)
                         /\ ret.rpc = <<>>
                    ELSE ~(ret.exc.msg = ForbiddenKeywordMsg /\ ret.exc.arg = K)

\* C1 witness: a query rejected for a keyword written in lower or mixed
\* case, while another keyword occurs in it only inside a longer word
C1_Witness ==
    /\ Returned
    /\ ret.exc.msg = ForbiddenKeywordMsg
    /\ LET clean == StripComments(call.sql)
       IN  /\ ret.exc.arg \notin Words(clean)
           /\ IsWholeWord(ret.exc.arg, clean)
           /\ \E k \in DOMAIN DANGEROUS_KEYWORDS :
                  /\ InsideLongerWord(DANGEROUS_KEYWORDS[k], clean)
                  /\ ~IsWholeWord(DANGEROUS_KEYWORDS[k], clean)

\* s, after leading whitespace, begins with SELECT in any letter case
BeginsWithSelect(s) ==
    \E i \in 1..(Len(s) - Len(SelectWord) + 1) :
        /\ \A j \in 1..(i - 1) : IsSpace(s[j])
        /\ SameLetters(SubSeq(s, i, i + Len(SelectWord) - 1), SelectWord)

\* C3: a query whose comment-stripped form does not begin with SELECT is
\* rejected and nothing is submitted; every text submitted to the remote
\* procedure begins with SELECT after comment stripping and trimming.
C3_OnlySelectReachesRpc ==
    Returned =>
        /\ ~BeginsWithSelect(StripComments(call.sql)) =>
               /\ ret.exc.raised
               /\ ret.exc.type = "ValueError"
               /\ ret.rpc = <<>>
        /\ \A i \in DOMAIN ret.rpc : BeginsWithSelect(StripComments(ret.rpc[i]))

\* C3 witness: a query that holds the word SELECT, but not first, is
\* rejected as not being a SELECT
C3_Witness ==
    /\ Returned
    /\ ret.exc.msg = OnlySelectMsg
    /\ IsWholeWord(SelectWord, StripComments(call.sql))
    /\ ret.rpc = <<>>

\* the literals X of the filters category = 'X' that s holds: the column
\* name in any letter case, optional whitespace around the operator, and X
\* the text between the two quotes
CategoryFilterLiterals(s) ==
    LET n == Len(CategoryWord)
    IN  {SubSeq(s, q[1] + 1, q[2] - 1) :
            q \in {p \in (1..Len(s)) \X (1..Len(s)) :
                      /\ p[1] < p[2]
                      /\ s[p[1]] = Quote /\ s[p[2]] = Quote
                      /\ \A j \in (p[1] + 1)..(p[2] - 1) : s[j] # Quote
                      /\ \E i \in 1..(p[1] - n - 1), e \in 1..(p[1] - 1) :
                             /\ i + n <= e
                             /\ SameLetters(SubSeq(s, i, i + n - 1), CategoryWord)
                             /\ s[e] = "="
                             /\ \A j \in ((i + n)..(p[1] - 1)) \ {e} : IsSpace(s[j])}}

\* C4: a query with a filter category = 'X' whose literal X is not in
\* ALLOWED_CATEGORIES is rejected, whichever of its filters holds X; when
\* every such literal is allowed, the query is not rejected for a category.
C4_EveryCategoryLiteralChecked ==
    Returned =>
        LET literals == CategoryFilterLiterals(StripComments(call.sql))
        IN  /\ (\E X \in literals : X \notin AllowedSet) => ret.exc.raised
            /\ (\A X \in literals : X \in AllowedSet) => ret.exc.msg # CategoryMsg

\* C4, as far as it holds: with the empty literal set aside, every literal
\* of a category filter is checked against ALLOWED_CATEGORIES
C4_NonEmptyLiteralsChecked ==
    Returned =>
        LET literals == CategoryFilterLiterals(StripComments(call.sql)) \ {<<>>}
        IN  /\ (\E X \in literals : X \notin AllowedSet) => ret.exc.raised
            /\ (\A X \in literals : X \in AllowedSet) => ret.exc.msg # CategoryMsg

(***************************************************************************)
(* Properties of the analytics (SpecChart).                                *)
(***************************************************************************)

\* C9: for an empty result set generate_analytics returns chart_type
\* "none" and no plotly_config, and runs neither the chart detection nor
\* the summary computation.
C9_EmptyResultSetGivesNone ==
    (call.fn = "generate_analytics" /\ Returned /\ call.data = <<>>) =>
        /\ ret.chart_type = "none"
        /\ ret.plotly_config = Null
        /\ ret.ran = <<>>

\* C9 witness: generate_analytics has returned for an empty result set
C9_Witness ==
    /\ call.fn = "generate_analytics"
    /\ call.data = <<>>
    /\ Returned
    /\ ret.chart_type = "none"

\* the first element of the sequence cols that is in the set S
FirstIn(cols, S) ==
    cols[CHOOSE i \in DOMAIN cols :
             cols[i] \in S /\ \A j \in 1..(i - 1) : cols[j] \notin S]

\* column kinds as the specification defines them: a column is temporal
\* when the leading non-null values sampled from it all parse as dates,
\* numeric when it holds numbers, and categorical otherwise
SampledCells(d, c) ==
    {ColumnCells(d, c)[r] : r \in {q \in 1..Len(head(d, HeadRows)) :
                                       ColumnCells(d, c)[q].t # "null"}}

IsNumeric(d, c) == Dtype(d, c) = "number"

IsTemporal(d, c) ==
    /\ Dtype(d, c) = "object"
    /\ SampledCells(d, c) # {}
    /\ \A x \in SampledCells(d, c) : x.t = "date"

IsCategorical(d, c) == Dtype(d, c) = "object" /\ ~IsTemporal(d, c)

\* the question holds one of the words, in any letter case
MentionsAny(words, q) ==
    \E w \in words : \E i \in 1..(Len(q) - Len(w) + 1) :
        SameLetters(SubSeq(q, i, i + Len(w) - 1), w)

\* C10: with no temporal column, a categorical column and a numeric
\* column, chart inference returns pie for a question that mentions
\* distribution, breakdown, percentage or proportion, and bar otherwise,
\* on the first categorical and the first numeric column.
C10_PieOrBarForCategorical ==
    (call.fn = "_detect_chart_type" /\ Returned) =>
        LET d    == call.data
            cols == Columns(d)
            cat  == {c \in Range(cols) : IsCategorical(d, c)}
            num  == {c \in Range(cols) : IsNumeric(d, c)}
        IN  ((\A c \in Range(cols) : ~IsTemporal(d, c)) /\ cat # {} /\ num # {}) =>
                ret = Triple(IF MentionsAny(PieWords, call.question)
                             THEN "pie" ELSE "bar",
                             Some(FirstIn(cols, cat)), Some(FirstIn(cols, num)))

\* C10, the scenario alone: category and count rows asked for a breakdown
C10_ScenarioGivesPie ==
    (/\ call.fn = "_detect_chart_type" /\ Returned
     /\ call.data = ScenarioCategoryCount /\ call.question = ScenarioBreakdown) =>
        ret = Triple("pie", Some("category"), Some("count"))

(***************************************************************************)
(* Properties of the pipeline (Spec, SpecConc).                            *)
(***************************************************************************)
Finished(r) == pc[r] = "done" /\ response[r] # Null

HandlesInitialized ==
    groq_client # Null /\ prompt_template # Null /\ supabase_client # Null

\* request r takes a step
Steps(r) == pc'[r] # pc[r]

\* C2: when the validator rejects the generated SQL, the step of chat that
\* calls execute_query submits nothing to the remote procedure and ends
\* the request with success = false and the error "Security validation
\* failed: " followed by the validator's reason.
C2_RejectedSqlNeverSubmitted ==
    [][\A r \in DOMAIN pc :
          (pc[r] = "execute_query" /\ Steps(r) /\ _validate_sql(sql_query[r]).raised) =>
              /\ rpc_log'[r] = <<>>
              /\ pc'[r] = "done"
              /\ response'[r] # Null
              /\ ~The(response'[r]).success
              /\ The(response'[r]).error =
                     Some([prefix |-> SecurityPrefix,
                           exc |-> _validate_sql(sql_query[r])])]_vars

\* C2 witness: a request ended by a rejection of its SQL for a category
\* that is not allowed, with nothing submitted
C2_Witness ==
    \E r \in DOMAIN pc :
        /\ Finished(r)
        /\ llm_calls[r] = 1
        /\ rpc_log[r] = <<>>
        /\ ~The(response[r]).success
        /\ The(The(response[r]).error).prefix = SecurityPrefix
        /\ The(The(response[r]).error).exc.msg = CategoryMsg

\* the analytics value of a failed computation
IsAnalyticsError(a) ==
    /\ a.chart_type = "error"
    /\ a.plotly_config = Null
    /\ DOMAIN a.data_summary = {"error"}

\* C5: once the database call has returned rows, the request ends with
\* success = true and the rows in data, whatever fails in the chart
\* detection, the chart config, the summary statistics or the text
\* synopsis; a failed analytics computation shows as chart_type "error".
C5_AnalyticsFailureNeverAborts ==
    \A r \in DOMAIN pc :
        (Finished(r) /\ data[r] # Null) =>
            /\ The(response[r]).success
            /\ The(response[r]).data = data[r]
            /\ The(response[r]).analytics # Null
            /\ (The(analytics[r]).chart_type = "error" =>
                    IsAnalyticsError(The(The(response[r]).analytics)))

\* C6 as stated, for a process whose handles were initialized: every
\* finished request made exactly one completion call and one RPC
C6_ExactlyOneOfEach ==
    \A r \in DOMAIN pc :
        (Finished(r) /\ HandlesInitialized) =>
            llm_calls[r] = 1 /\ Len(rpc_log[r]) = 1

\* C6, amended: a request makes at most one completion call and at most
\* one RPC; an RPC is made only after the completion call has returned the
\* SQL text, which the RPC submits trimmed; a request that ends with
\* success has made exactly one of each.
C6_AtMostOnceInOrder ==
    \A r \in DOMAIN pc :
        /\ llm_calls[r] <= 1
        /\ Len(rpc_log[r]) <= 1
        /\ (pc[r] \in {"idle", "get_schema", "generate_sql"} =>
                llm_calls[r] = 0 /\ rpc_log[r] = <<>>)
        /\ (pc[r] = "execute_query" => llm_calls[r] = 1 /\ rpc_log[r] = <<>>)
        /\ (rpc_log[r] # <<>> =>
                /\ llm_calls[r] = 1
                /\ rpc_log[r] = <<rstrip_semicolon(strip(sql_query[r]))>>)
        /\ ((Finished(r) /\ The(response[r]).success) =>
                llm_calls[r] = 1 /\ Len(rpc_log[r]) = 1)

\* C6 witness: a request that ended after one completion call and one RPC
C6_Witness ==
    \E r \in DOMAIN pc :
        /\ Finished(r)
        /\ The(response[r]).success
        /\ llm_calls[r] = 1
        /\ Len(rpc_log[r]) = 1

\* C7: a request is served only by a process whose completion client and
\* database client were both initialized, whichever entry point runs.
C7_ServesOnlyWhenInitialized ==
    \A r \in DOMAIN pc : pc[r] # "idle" => HandlesInitialized

\* C7 for main.py alone, where lifespan initializes before serving
C7_MainServesOnlyWhenInitialized ==
    \A r \in DOMAIN pc : (entry = "main" /\ pc[r] # "idle") => HandlesInitialized

\* the locals of request r
Locals(r) ==
    <<pc[r], question[r], sql_query[r], data[r], analytics[r], summary[r],
      response[r], llm_calls[r], rpc_log[r]>>

\* C8: whatever the interleaving, a step of a request writes neither
\* client handle and changes the locals of no other request; a handle,
\* once set, is never changed; and the response of a request is built
\* from its own question, SQL, rows, analytics and summary.
C8_RequestsShareOnlyReadOnlyHandles ==
    [][/\ \A r \in DOMAIN pc :
            Steps(r) =>
                /\ UNCHANGED handles
                /\ \A o \in DOMAIN pc \ {r} : Locals(o)' = Locals(o)
                /\ (Finished(r)' =>
                        LET resp == The(response'[r])
                        IN  /\ resp.question = question'[r]
                            /\ resp.sql_generated = Some(sql_query'[r])
                            /\ (resp.success =>
                                    /\ resp.data = data'[r]
                                    /\ resp.summary = summary'[r]
                                    /\ resp.analytics =
                                           Some(AnalyticsData(The(analytics'[r])))))
       /\ (groq_client # Null => groq_client' = groq_client)
       /\ (prompt_template # Null => prompt_template' = prompt_template)
       /\ (supabase_client # Null => supabase_client' = supabase_client)]_vars

\* C8 witness: two requests in flight at different steps of the pipeline,
\* on initialized handles, one of them past its RPC
C8_Witness ==
    \E r, o \in DOMAIN pc :
        /\ r # o
        /\ HandlesInitialized
        /\ pc[r] = "generate_text_summary"
        /\ pc[o] = "execute_query"
        /\ rpc_log[r] # <<>>

\* rows = [{created_at: "2024-01-01", total: 10}, {created_at: "2024-02-01", total: 20}]
ScenarioCreatedAtTotal == Dataset(<<"created_at", "total">>, 2)

\* C11: chart inference returns line exactly when the result set has a
\* temporal column (an object column whose sampled leading non-null values
\* all parse as dates) and a numeric column, and then on the leftmost
\* temporal and the leftmost numeric column.
C11_LineExactlyWhenTemporal ==
    (call.fn = "_detect_chart_type" /\ Returned) =>
        LET d        == call.data
            cols     == Columns(d)
            temporal == {c \in Range(cols) : IsTemporal(d, c)}
            num      == {c \in Range(cols) : IsNumeric(d, c)}
        IN  IF temporal # {} /\ num # {}
            THEN ret = Triple("line", Some(FirstIn(cols, temporal)),
                              Some(FirstIn(cols, num)))
            ELSE ret.chart_type # "line"

\* C11, the scenario alone: created_at and total rows give a line chart
C11_ScenarioGivesLine ==
    (/\ call.fn = "_detect_chart_type" /\ Returned
     /\ call.data = ScenarioCreatedAtTotal) =>
        ret = Triple("line", Some("created_at"), Some("total"))

\* C12: in every result of generate_analytics, plotly_config is present
\* exactly when chart_type is none of table, none and error and the result
\* set was not empty.
C12_ConfigPresentIffChart ==
    (call.fn = "generate_analytics" /\ Returned) =>
        ((ret.plotly_config # Null) <=>
            (ret.chart_type \notin {"table", "none", "error"} /\ call.data # <<>>))

\* C12, one direction: a plotly_config is carried only by a line, bar, pie
\* or scatter result of a result set that was not empty, and it is the
\* config of that chart type
C12_ConfigOnlyWithChart ==
    (call.fn = "generate_analytics" /\ Returned /\ ret.plotly_config # Null) =>
        /\ ret.chart_type \in {"line", "bar", "pie", "scatter"}
        /\ call.data # <<>>
        /\ The(ret.plotly_config).kind = ret.chart_type

DatabaseErrorMsg == "Database query failed: "

\* t is s without its surrounding whitespace and without the statement
\* terminators that end it: s is whitespace, t, a run of ';' and whitespace,
\* where t begins with no whitespace, ends with no ';', and ends with no
\* whitespace unless a ';' followed it
TrimmedOf(s, t) ==
    \E i \in 1..(Len(s) + 1) :
        LET j == i + Len(t) - 1
        IN  /\ j <= Len(s)
            /\ \A n \in 1..(i - 1) : IsSpace(s[n])
            /\ t = SubSeq(s, i, j)
            /\ (t # <<>> => ~IsSpace(t[1]) /\ t[Len(t)] # ";")
            /\ \E k \in j..Len(s) :
                   /\ \A n \in (j + 1)..k : s[n] = ";"
                   /\ \A n \in (k + 1)..Len(s) : IsSpace(s[n])
                   /\ ((t # <<>> /\ k = j) => ~IsSpace(t[Len(t)]))

\* C13: when execute_query calls the remote procedure, it submits once the
\* sql that _validate_sql accepted, without its surrounding whitespace and
\* its trailing terminators, so the text never ends with ';'; a reply with
\* an error makes the call fail with the database error that carries the
\* remote message, a reply with data returns its rows, and a reply with
\* no data field returns the empty sequence.
C13_SubmitsTrimmedAndMapsReply ==
    (Returned /\ ret.rpc # <<>>) =>
        /\ Len(ret.rpc) = 1
        /\ ~_validate_sql(call.sql).raised
        /\ TrimmedOf(call.sql, ret.rpc[1])
        /\ ret.rpc[1] # <<>>
        /\ ret.rpc[1][Len(ret.rpc[1])] # ";"
        /\ CASE ret.reply.kind = "error" ->
                    /\ ret.exc.raised
                    /\ ret.exc.type = "Exception"
                    /\ ret.exc.msg = DatabaseErrorMsg
                    /\ ret.exc.arg = ret.reply.message
             [] ret.reply.kind = "data" ->
                    ~ret.exc.raised /\ ret.data = ret.reply.data
             [] ret.reply.kind = "no_data_attr" ->
                    ~ret.exc.raised /\ ret.data = <<>>
             [] OTHER -> FALSE

\* C13 witness: a query that ends with terminators and whitespace was
\* submitted without them, and the remote procedure returned rows
C13_Witness ==
    /\ Returned
    /\ ret.rpc # <<>>
    /\ Len(ret.rpc[1]) + 2 <= Len(call.sql)
    /\ \E n \in DOMAIN call.sql : call.sql[n] = ";"
    /\ IsSpace(call.sql[Len(call.sql)])
    /\ ret.reply.kind = "data"
    /\ ret.data # <<>>

\* C14: the chart config builder gives the renderer at most PlotRowCap
\* rows, the first PlotRowCap rows in order when the result set has more
\* and every row otherwise; it returns no config when chart_type is table,
\* none or error, or when the x column is absent.
C14_RendererGetsFirstRows ==
    (call.fn = "_generate_plotly_config" /\ Returned) =>
        /\ (call.chart_type \in {"table", "none", "error"} \/ call.x_col = Null) =>
               ret.config = Null
        /\ ret.config # Null =>
               LET rows == The(ret.config).rows
               IN  /\ Len(rows) <= PlotRowCap
                   /\ Len(rows) = IF Len(call.data) > PlotRowCap
                                  THEN PlotRowCap ELSE Len(call.data)
                   /\ \A i \in 1..Len(rows) : rows[i] = call.data[i]

\* C14 witness: a result set of more rows than the cap gave a config
C14_Witness ==
    /\ call.fn = "_generate_plotly_config"
    /\ Returned
    /\ Len(call.data) > PlotRowCap
    /\ ret.config # Null
    /\ Len(The(ret.config).rows) = PlotRowCap

\* the validator rejected the SQL that the completion call of request r
\* returned, and that rejection ended the request
ValidatorRejected(r) ==
    /\ llm_calls[r] = 1
    /\ rpc_log[r] = <<>>
    /\ _validate_sql(sql_query[r]).raised
    /\ The(The(response[r]).error).exc = _validate_sql(sql_query[r])

\* C15: the error of a response begins "Security validation failed: " only
\* if the validator rejected the generated SQL in that request; a failure
\* of any other step of the pipeline is reported with "An internal error
\* occurred: ".
C15_SecurityPrefixOnlyForValidator ==
    \A r \in DOMAIN pc :
        (Finished(r) /\ ~The(response[r]).success) =>
            /\ The(The(response[r]).error).prefix \in {SecurityPrefix, InternalPrefix}
            /\ (The(The(response[r]).error).prefix = SecurityPrefix
                    <=> ValidatorRejected(r))

\* C15, as far as it holds: the security prefix is given exactly to the
\* exceptions that are a ValueError, and every rejection by the validator
\* gets it
C15_SecurityPrefixIffValueError ==
    \A r \in DOMAIN pc :
        (Finished(r) /\ ~The(response[r]).success) =>
            /\ (The(The(response[r]).error).prefix = SecurityPrefix
                    <=> The(The(response[r]).error).exc.type \in ValueErrorTypes)
            /\ (ValidatorRejected(r) =>
                    The(The(response[r]).error).prefix = SecurityPrefix)

\* request r can take its next step: execute_query raises or returns for
\* some reply of the remote procedure, and every other step is enabled
CanStep(r) ==
    IF pc[r] = "execute_query"
    THEN \E reply \in PipelineReplies :
             execute_query(supabase_client, sql_query[r], reply).exc.raised \in BOOLEAN
    ELSE ENABLED \/ GetSchema(r)
                 \/ GenerateSql(r, LlmReplies)
                 \/ GenerateAnalytics(r)
                 \/ GenerateTextSummary(r)
                 \/ Respond(r)

\* the texts generate_sql returns for the completions of the API
LlmSqlTexts ==
    { parse(strip(reply.content)) : reply \in {l \in LlmReplies : l.kind = "content"} }

\* the request failed inside generate_sql, before it returned a text
FailedInGenerateSql(r) ==
    \E reply \in LlmReplies :
        LET out == generate_sql(prompt_template, groq_client, reply)
        IN  out.exc.raised /\ The(The(response[r]).error).exc = out.exc

\* C16: every received request ends in exactly one response: a request in
\* progress can always take its next step, and a response exists exactly
\* when chat has returned. In a response success is true iff error is
\* absent. A successful response carries sql_generated, data, analytics and
\* summary; a failed one carries none of data, analytics and summary, and
\* its sql_generated is the text generate_sql returned, or the empty text
\* when generate_sql had not returned.
C16_OneWellFormedResponse ==
    \A r \in DOMAIN pc :
        /\ (response[r] # Null) <=> (pc[r] = "done")
        /\ Cardinality(response[r]) <= 1
        /\ pc[r] \notin {"idle", "done"} => CanStep(r)
        /\ Finished(r) =>
              LET resp == The(response[r])
              IN  /\ resp.success <=> (resp.error = Null)
                  /\ resp.question = question[r]
                  /\ resp.success =>
                        /\ sql_query[r] \in LlmSqlTexts
                        /\ resp.sql_generated = Some(sql_query[r])
                        /\ resp.data # Null /\ resp.data = data[r]
                        /\ resp.analytics # Null
                        /\ resp.summary # Null /\ resp.summary = summary[r]
                  /\ ~resp.success =>
                        /\ resp.data = Null
                        /\ resp.analytics = Null
                        /\ resp.summary = Null
                        /\ IF FailedInGenerateSql(r)
                           THEN resp.sql_generated = Some(<<>>)
                           ELSE /\ sql_query[r] \in LlmSqlTexts
                                /\ resp.sql_generated = Some(sql_query[r])

\* a request failed after its rows were fetched, and the response names
\* the SQL that was generated
C16_Witness ==
    \E r \in DOMAIN pc :
        /\ Finished(r)
        /\ ~The(response[r]).success
        /\ data[r] # Null
        /\ The(response[r]).sql_generated # Some(<<>>)

====
